---------------------------- MODULE Spec2Model ----------------------------
(***************************************************************************)
(* Model of the activity backend: ActivityService (create, update, the     *)
(* three finders and the private validators), the request DTO transforms,  *)
(* and the PermissionGuard in front of the ActivityController routes.      *)
(*                                                                         *)
(* Strings the code transforms (slug, language codes) are sequences of     *)
(* one-character strings, so toLowerCase and trim are computed.  Dates are *)
(* integers (epoch order); null and undefined are the two negative values  *)
(* Null and Undefined, which are the only falsy date values.  A DTO is a   *)
(* record that has a field exactly when the request supplies it.           *)
(***************************************************************************)
EXTENDS Integers, Sequences, FiniteSets, TLC

VARIABLES
    activities,   \* table "activities": id -> row
    contents,     \* table "activity_contents": rows in insertion order
    phase,        \* position of the request being served: idle, pending, handled
    req,          \* the request after the validation pipe
    res,          \* the response of the handler
    createdSlugs, \* history: the slugs activities have been created with
    gate,         \* the request at the PermissionGuard and the guard's decision
    procs,        \* concurrent requests: each one's position and local values
    before,       \* history: the tables before the handler of the request ran
    auth          \* execution mode, table "members", history of the tokens issued

vars == <<activities, contents, phase, req, res, createdSlugs, gate, procs, before,
          auth>>

----------------------------------------------------------------------------
(* Bounds of the model *)

MaxDate == 3      \* dates range over 1..MaxDate
MaxLen == 3       \* longest content list of a request

(* Program constants *)

SlugMinLen == 3
SlugMaxLen == 64

Null == -1
Undefined == -2

----------------------------------------------------------------------------
(* Strings *)

LowerChar(c) ==
    IF c = "A" THEN "a"
    ELSE IF c = "E" THEN "e"
    ELSE IF c = "N" THEN "n"
    ELSE IF c = "Z" THEN "z"
    ELSE IF c = "H" THEN "h"
    ELSE c

toLowerCase(s) == [i \in DOMAIN s |-> LowerChar(s[i])]

RECURSIVE trimStart(_)
trimStart(s) ==
    IF s # <<>> /\ Head(s) = " " THEN trimStart(Tail(s)) ELSE s

RECURSIVE trimEnd(_)
trimEnd(s) ==
    IF s # <<>> /\ s[Len(s)] = " " THEN trimEnd(SubSeq(s, 1, Len(s) - 1)) ELSE s

trim(s) == trimEnd(trimStart(s))

AlnumChars == {"a", "b", "c", "e", "h", "n", "x", "y", "z"}

(* /^[a-z0-9]+(?:-[a-z0-9]+)*$/ *)
SlugMatches(s) ==
    /\ s # <<>>
    /\ \A i \in DOMAIN s : s[i] \in AlnumChars \cup {"-"}
    /\ s[1] # "-"
    /\ s[Len(s)] # "-"
    /\ \A i \in 1..(Len(s) - 1) : ~(s[i] = "-" /\ s[i + 1] = "-")

SlugValid(s) == Len(s) >= SlugMinLen /\ Len(s) <= SlugMaxLen /\ SlugMatches(s)

----------------------------------------------------------------------------
(* Records with optional fields *)

Has(r, f) == f \in DOMAIN r

Get(r, f) == IF f \in DOMAIN r THEN r[f] ELSE Undefined

Truthy(d) == d # Null /\ d # Undefined

SeqIncludes(s, x) == \E i \in DOMAIN s : s[i] = x

RECURSIVE SeqFilterNotIn(_, _)
SeqFilterNotIn(s, allowed) ==
    IF s = <<>> THEN <<>>
    ELSE IF SeqIncludes(allowed, Head(s))
         THEN SeqFilterNotIn(Tail(s), allowed)
         ELSE <<Head(s)>> \o SeqFilterNotIn(Tail(s), allowed)

IndexOf(s, x) == CHOOSE i \in DOMAIN s : s[i] = x /\ \A j \in 1..(i - 1) : s[j] # x

RECURSIVE DuplicatesFrom(_, _)
DuplicatesFrom(s, i) ==
    IF i > Len(s) THEN <<>>
    ELSE IF IndexOf(s, s[i]) # i
         THEN <<s[i]>> \o DuplicatesFrom(s, i + 1)
         ELSE DuplicatesFrom(s, i + 1)

Range(s) == {s[i] : i \in DOMAIN s}

----------------------------------------------------------------------------
(* The validation pipe: class-transformer's @Transform of each field *)

TransformContent(c) == [c EXCEPT !.lang = toLowerCase(c.lang)]

TransformDto(raw) ==
    [f \in DOMAIN raw |->
        IF f = "slug" THEN trim(toLowerCase(raw[f]))
        ELSE IF f = "supportedLanguages"
             THEN [i \in DOMAIN raw[f] |-> toLowerCase(raw[f][i])]
        ELSE IF f = "contents"
             THEN [i \in DOMAIN raw[f] |-> TransformContent(raw[f][i])]
        ELSE raw[f]]

(* class-validator on the transformed DTO: the slug's @Length and @Matches *)
DtoValid(dto) == Has(dto, "slug") => SlugValid(dto.slug)

----------------------------------------------------------------------------
(* ActivityService: private validators *)

Ok == [status |-> "Ok", error |-> "none", langs |-> <<>>]

Failure(status, error, langs) == [status |-> status, error |-> error, langs |-> langs]

validateDates_strict(startAt, endAt, closedAt) ==
    IF endAt < startAt
    THEN Failure("BadRequest", "EndNotAfterStart", <<>>)
    ELSE IF Truthy(closedAt) /\ closedAt > startAt
         THEN Failure("BadRequest", "ClosedNotBeforeStart", <<>>)
         ELSE Ok

validateDates(startAt, endAt, closedAt) ==
    IF endAt <= startAt
    THEN Failure("BadRequest", "EndNotAfterStart", <<>>)
    ELSE IF Truthy(closedAt) /\ closedAt >= startAt
         THEN Failure("BadRequest", "ClosedNotBeforeStart", <<>>)
         ELSE Ok

findUniqueBySlug(acts, slug) == {id \in DOMAIN acts : acts[id].slug = slug}

checkSlugExists_skip(acts, slug) == Ok

checkSlugExists(acts, slug) ==
    IF findUniqueBySlug(acts, slug) # {}
    THEN Failure("Conflict", "SlugExists", <<>>)
    ELSE Ok

contentLangs(cs) == [i \in DOMAIN cs |-> cs[i].lang]

validateContentLanguages_listAll(cs, supportedLanguages) ==
    LET langs == contentLangs(cs)
        unsupportedLangs == SeqFilterNotIn(langs, supportedLanguages)
        duplicateLangs == DuplicatesFrom(langs, 1)
    IN  IF Len(unsupportedLangs) > 0
        THEN Failure("BadRequest", "UnsupportedLanguages", langs)
        ELSE IF Len(duplicateLangs) > 0
             THEN Failure("BadRequest", "DuplicateLanguages", duplicateLangs)
             ELSE Ok

validateContentLanguages_noDuplicateCheck(cs, supportedLanguages) ==
    LET langs == contentLangs(cs)
        unsupportedLangs == SeqFilterNotIn(langs, supportedLanguages)
    IN  IF Len(unsupportedLangs) > 0
        THEN Failure("BadRequest", "UnsupportedLanguages", unsupportedLangs)
        ELSE Ok

validateContentLanguages(cs, supportedLanguages) ==
    LET langs == contentLangs(cs)
        unsupportedLangs == SeqFilterNotIn(langs, supportedLanguages)
        duplicateLangs == DuplicatesFrom(langs, 1)
    IN  IF Len(unsupportedLangs) > 0
        THEN Failure("BadRequest", "UnsupportedLanguages", unsupportedLangs)
        ELSE IF Len(duplicateLangs) > 0
             THEN Failure("BadRequest", "DuplicateLanguages", duplicateLangs)
             ELSE Ok

applySupportedLanguageFilter_none(supportedLanguages, rows) == rows

applySupportedLanguageFilter(supportedLanguages, rows) ==
    SelectSeq(rows, LAMBDA c : SeqIncludes(supportedLanguages, c.lang))

----------------------------------------------------------------------------
(* The store: the two tables and their unique indexes *)

NoDescription == "null"

ContentRow(id, c) ==
    [activityId |-> id, lang |-> c.lang, title |-> c.title,
     description |-> IF Has(c, "description") THEN c.description ELSE NoDescription]

ContentsOf(rows, id) == SelectSeq(rows, LAMBDA r : r.activityId = id)

RowIndex(rows, id, lang) ==
    {i \in DOMAIN rows : rows[i].activityId = id /\ rows[i].lang = lang}

(* activity_contents_activity_id_lang_key *)
ContentKeyUnique(rows) ==
    \A i, j \in DOMAIN rows :
        (rows[i].activityId = rows[j].activityId /\ rows[i].lang = rows[j].lang) => i = j

(* activities_slug_key *)
SlugKeyUnique(acts) ==
    \A i, j \in DOMAIN acts : acts[i].slug = acts[j].slug => i = j

(* tx.activityContent.upsert keyed on (activityId, lang) *)
upsert_insertOnly(rows, id, c) == Append(rows, ContentRow(id, c))

upsert(rows, id, c) ==
    LET hit == RowIndex(rows, id, c.lang)
    IN  IF hit # {}
        THEN [i \in DOMAIN rows |->
                IF i \in hit
                THEN [rows[i] EXCEPT
                        !.title = c.title,
                        !.description = IF Has(c, "description")
                                        THEN c.description ELSE @]
                ELSE rows[i]]
        ELSE Append(rows, ContentRow(id, c))

RECURSIVE upsertAll(_, _, _)
upsertAll(rows, id, cs) ==
    IF cs = <<>> THEN rows
    ELSE upsertAll(upsert(rows, id, Head(cs)), id, Tail(cs))

(* the data object of tx.activity.update: only the supplied, truthy fields;
   closedAt whenever it is not undefined, null included *)
UpdateData_truthyClosedAt(dto) ==
    LET fields == {f \in {"startAt", "endAt", "closedAt"} : Truthy(Get(dto, f))}
                  \cup {f \in {"slug", "supportedLanguages"} : Has(dto, f)}
    IN  [f \in fields |-> dto[f]]

UpdateData(dto) ==
    LET fields == {f \in {"startAt", "endAt"} : Truthy(Get(dto, f))}
                  \cup {f \in {"slug", "supportedLanguages"} : Has(dto, f)}
                  \cup {f \in {"closedAt"} : Get(dto, f) # Undefined}
    IN  [f \in fields |-> dto[f]]

ApplyData(row, data) ==
    [f \in DOMAIN row |-> IF f \in DOMAIN data THEN data[f] ELSE row[f]]

----------------------------------------------------------------------------
(* ActivityService: the handlers, as functions of the store and the request.
   Each yields the tables after the call and the response. *)

Outcome(acts, rows, r) == [activities |-> acts, contents |-> rows, res |-> r]

FirstFailure(checks) ==
    IF \E i \in DOMAIN checks : checks[i].status # "Ok"
    THEN checks[CHOOSE i \in DOMAIN checks :
                    /\ checks[i].status # "Ok"
                    /\ \A j \in 1..(i - 1) : checks[j].status = "Ok"]
    ELSE Ok

StoreError == Failure("StoreError", "UniqueConstraint", <<>>)

ActivityView(acts, rows, id) ==
    [id |-> id, activity |-> acts[id], contents |-> ContentsOf(rows, id)]

(* prisma.activity.create with its nested contents: one statement, refused by
   a unique index *)
insertActivity_noIndex(acts, rows, dto) ==
    LET id == Cardinality(DOMAIN acts) + 1
        row == [slug |-> dto.slug,
                startAt |-> dto.startAt,
                endAt |-> dto.endAt,
                closedAt |-> IF Truthy(Get(dto, "closedAt")) THEN dto.closedAt ELSE Null,
                supportedLanguages |-> dto.supportedLanguages]
        acts2 == acts @@ (id :> row)
        rows2 == rows \o [i \in DOMAIN dto.contents |-> ContentRow(id, dto.contents[i])]
    IN  Outcome(acts2, rows2,
            [status |-> "Created", error |-> "none", langs |-> <<>>,
             body |-> ActivityView(acts2, rows2, id)])

insertActivity(acts, rows, dto) ==
    LET id == Cardinality(DOMAIN acts) + 1
        row == [slug |-> dto.slug,
                startAt |-> dto.startAt,
                endAt |-> dto.endAt,
                closedAt |-> IF Truthy(Get(dto, "closedAt")) THEN dto.closedAt ELSE Null,
                supportedLanguages |-> dto.supportedLanguages]
        acts2 == acts @@ (id :> row)
        rows2 == rows \o [i \in DOMAIN dto.contents |-> ContentRow(id, dto.contents[i])]
    IN  IF ~(SlugKeyUnique(acts2) /\ ContentKeyUnique(rows2))
        THEN Outcome(acts, rows, StoreError)
        ELSE Outcome(acts2, rows2,
                [status |-> "Created", error |-> "none", langs |-> <<>>,
                 body |-> ActivityView(acts2, rows2, id)])

(* create up to its write: validateDates, checkSlugExists, validateContentLanguages *)
CreateChecks(acts, dto) ==
    FirstFailure(<<
        validateDates(dto.startAt, dto.endAt, Get(dto, "closedAt")),
        checkSlugExists(acts, dto.slug),
        validateContentLanguages(dto.contents, dto.supportedLanguages)>>)

create(acts, rows, dto) ==
    LET failed == CreateChecks(acts, dto)
    IN  IF failed.status # "Ok" THEN Outcome(acts, rows, failed)
        ELSE insertActivity(acts, rows, dto)

RECURSIVE Reverse(_)
Reverse(s) == IF s = <<>> THEN <<>> ELSE Reverse(Tail(s)) \o <<Head(s)>>

findAll(acts, rows) ==
    Outcome(acts, rows,
        [status |-> "Ok", error |-> "none", langs |-> <<>>,
         body |-> Reverse([i \in 1..Cardinality(DOMAIN acts) |->
                            [id |-> i, activity |-> acts[i]]])])

NotFound == Failure("NotFound", "ActivityNotFound", <<>>)

findOneById(acts, rows, id) ==
    IF id \notin DOMAIN acts THEN Outcome(acts, rows, NotFound)
    ELSE Outcome(acts, rows,
            [status |-> "Ok", error |-> "none", langs |-> <<>>,
             body |-> ActivityView(acts, rows, id)])

Projection(row) == [lang |-> row.lang, title |-> row.title, description |-> row.description]

(* lang is the empty string when the query carries none *)
findOneBySlug(acts, rows, slug, hasLang, lang) ==
    LET found == findUniqueBySlug(acts, slug)
        id == CHOOSE i \in found : TRUE
        selected ==
            IF hasLang /\ lang # <<>>
            THEN SelectSeq(ContentsOf(rows, id), LAMBDA r : r.lang = toLowerCase(lang))
            ELSE ContentsOf(rows, id)
        projected == [i \in DOMAIN selected |-> Projection(selected[i])]
    IN  IF found = {} THEN Outcome(acts, rows, NotFound)
        ELSE Outcome(acts, rows,
                [status |-> "Ok", error |-> "none", langs |-> <<>>,
                 body |-> [activity |-> acts[id],
                           contents |-> applySupportedLanguageFilter(
                                            acts[id].supportedLanguages, projected)]])

(* the checks of update that precede the transaction, against the loaded activity *)
UpdateDateCheck(activity, dto) ==
    IF Truthy(Get(dto, "startAt")) \/ Truthy(Get(dto, "endAt"))
       \/ Get(dto, "closedAt") # Undefined
    THEN validateDates(
            IF Truthy(Get(dto, "startAt")) THEN dto.startAt ELSE activity.startAt,
            IF Truthy(Get(dto, "endAt")) THEN dto.endAt ELSE activity.endAt,
            IF Get(dto, "closedAt") # Undefined THEN dto.closedAt ELSE activity.closedAt)
    ELSE Ok

UpdateSlugCheck(acts, activity, dto) ==
    IF Has(dto, "slug") /\ dto.slug # activity.slug
    THEN checkSlugExists(acts, dto.slug)
    ELSE Ok

UpdateLanguageCheck_stored(activity, dto) ==
    IF Has(dto, "contents")
    THEN validateContentLanguages(dto.contents, activity.supportedLanguages)
    ELSE Ok

UpdateLanguageCheck(activity, dto) ==
    IF Has(dto, "contents")
    THEN validateContentLanguages(dto.contents,
            IF Has(dto, "supportedLanguages")
            THEN dto.supportedLanguages ELSE activity.supportedLanguages)
    ELSE Ok

(* the body of the transaction: the parent update, then the upserts *)
TxActivities(acts, id, dto) ==
    [acts EXCEPT ![id] = ApplyData(acts[id], UpdateData(dto))]

TxContents(rows, id, dto) ==
    IF Has(dto, "contents") THEN upsertAll(rows, id, dto.contents) ELSE rows

update_writeFirst(acts, rows, id, dto) ==
    IF id \notin DOMAIN acts THEN Outcome(acts, rows, NotFound)
    ELSE
    LET activity == acts[id]
        failed == FirstFailure(<<
            UpdateDateCheck(activity, dto),
            UpdateSlugCheck(acts, activity, dto),
            UpdateLanguageCheck(activity, dto)>>)
        acts2 == TxActivities(acts, id, dto)
        rows2 == TxContents(rows, id, dto)
    IN  IF failed.status # "Ok" THEN Outcome(acts2, rows, failed)
        ELSE Outcome(acts2, rows2,
                [status |-> "Ok", error |-> "none", langs |-> <<>>,
                 body |-> ActivityView(acts2, rows2, id)])

update(acts, rows, id, dto) ==
    IF id \notin DOMAIN acts THEN Outcome(acts, rows, NotFound)
    ELSE
    LET activity == acts[id]
        failed == FirstFailure(<<
            UpdateDateCheck(activity, dto),
            UpdateSlugCheck(acts, activity, dto),
            UpdateLanguageCheck(activity, dto)>>)
        acts2 == TxActivities(acts, id, dto)
        rows2 == TxContents(rows, id, dto)
    IN  IF failed.status # "Ok" THEN Outcome(acts, rows, failed)
        ELSE IF ~(SlugKeyUnique(acts2) /\ ContentKeyUnique(rows2))
             THEN Outcome(acts, rows, StoreError)
             ELSE Outcome(acts2, rows2,
                    [status |-> "Ok", error |-> "none", langs |-> <<>>,
                     body |-> ActivityView(acts2, rows2, id)])

----------------------------------------------------------------------------
(* Requests *)

en == <<"e", "n">>
EN == <<"E", "N">>
zh == <<"z", "h">>
fr == <<"f", "r">>

abc == <<"a", "b", "c">>
xy == <<"x", "-", "y">>
xyz == <<"x", "y", "z">>

Dates == 1..MaxDate

(* the partial records that have field f or not *)
Opt(f, S) == {<<>>} \cup {[g \in {f} |-> v] : v \in S}

Item1(lang) == [lang |-> lang, title |-> "t1"]
Item2(lang) == [lang |-> lang, title |-> "t2", description |-> "d2"]

RawSlugs == {abc, <<" ", "A", "b", "c", " ">>, xy, <<"a", "b", "-">>}

DateCreateInputs ==
    {[op |-> "create",
      dto |-> [slug |-> s, startAt |-> a, endAt |-> b,
               supportedLanguages |-> <<en>>, contents |-> <<Item1(en)>>] @@ c] :
        s \in RawSlugs, a \in Dates, b \in Dates,
        c \in Opt("closedAt", Dates \cup {Null})}

DateUpdateInputs ==
    {[op |-> "update", id |-> i, dto |-> (s @@ a) @@ (b @@ c)] :
        i \in 1..2,
        s \in Opt("slug", {<<"A", "b", "c">>, xy}),
        a \in Opt("startAt", Dates \cup {Null}),
        b \in Opt("endAt", Dates),
        c \in Opt("closedAt", Dates \cup {Null})}

DateFindInputs ==
    {[op |-> "findOneBySlug", slug |-> s, hasLang |-> h, lang |-> IF h THEN EN ELSE <<>>] :
        s \in {abc, xy}, h \in BOOLEAN}
    \cup {[op |-> "findOneById", id |-> i] : i \in 1..2}
    \cup {[op |-> "findAll"]}

DateInputs == DateCreateInputs \cup DateUpdateInputs \cup DateFindInputs

RawLangs == {en, EN, zh, fr}

RawSupported == {<<en>>, <<EN, zh>>, <<zh>>}

SeqsUpTo(S, n) == UNION {[1..k -> S] : k \in 0..n}

ContentLists ==
    SeqsUpTo({Item1(l) : l \in RawLangs}, MaxLen)
    \cup SeqsUpTo({Item2(l) : l \in RawLangs}, 1)

LangCreateInputs ==
    {[op |-> "create",
      dto |-> [slug |-> abc, startAt |-> 1, endAt |-> 2,
               supportedLanguages |-> sl, contents |-> cs]] :
        sl \in RawSupported, cs \in ContentLists}
    \cup {[op |-> "create",
           dto |-> [slug |-> abc, startAt |-> 2, endAt |-> 1,
                    supportedLanguages |-> <<en>>, contents |-> <<Item1(l)>>]] :
            l \in {en, fr}}

LangUpdateInputs ==
    {[op |-> "update", id |-> i, dto |-> sl @@ cs] :
        i \in 1..2,
        sl \in Opt("supportedLanguages", RawSupported),
        cs \in Opt("contents", ContentLists)}
    \cup {[op |-> "update", id |-> 1,
           dto |-> [endAt |-> 1, contents |-> <<Item1(l)>>]] : l \in {en, fr}}

LangFindInputs ==
    {[op |-> "findOneBySlug", slug |-> s, hasLang |-> FALSE, lang |-> <<>>] :
        s \in {abc, xy}}
    \cup {[op |-> "findOneBySlug", slug |-> abc, hasLang |-> TRUE, lang |-> l] :
            l \in RawLangs \cup {<<>>}}
    \cup {[op |-> "findOneById", id |-> i] : i \in 1..2}
    \cup {[op |-> "findAll"]}

LangInputs == LangCreateInputs \cup LangUpdateInputs \cup LangFindInputs

----------------------------------------------------------------------------
(* The life of a request: through the validation pipe, into its handler, out *)

NoGate == [route |-> "none"]

Procs == {1, 2}
IdleProc == [pc |-> "idle"]

(* the tables as the request being answered found them *)
NoBefore == [activities |-> <<>>, contents |-> <<>>]

(* NODE_ENV when the variable is not set *)
UnsetMode == "undefined"

NoAuth == [mode |-> UnsetMode, members |-> <<>>, tokens |-> {}]

NoReq == [op |-> "none"]
NoRes == [status |-> "none"]

(* the request as the handler gets it; raw keeps the body as it was sent *)
Piped(r) ==
    IF "dto" \in DOMAIN r
    THEN [r EXCEPT !.dto = TransformDto(r.dto)] @@ [raw |-> r.dto]
    ELSE r

Receive(Inputs) ==
    /\ phase = "idle"
    /\ \E r \in Inputs :
        /\ "dto" \in DOMAIN r => DtoValid(Piped(r).dto)
        /\ req' = Piped(r)
    /\ phase' = "pending"
    /\ res' = NoRes
    /\ UNCHANGED <<activities, contents, createdSlugs, gate, procs, before, auth>>

Handle(o) ==
    /\ activities' = o.activities
    /\ contents' = o.contents
    /\ res' = o.res
    /\ phase' = "handled"
    /\ createdSlugs' = createdSlugs \cup
            {o.activities[i].slug : i \in DOMAIN o.activities \ DOMAIN activities}
    /\ before' = [activities |-> activities, contents |-> contents]
    /\ UNCHANGED <<req, gate, procs, auth>>

Create ==
    /\ phase = "pending" /\ req.op = "create"
    /\ Handle(create(activities, contents, req.dto))

Update ==
    /\ phase = "pending" /\ req.op = "update"
    /\ Handle(update(activities, contents, req.id, req.dto))

FindAll ==
    /\ phase = "pending" /\ req.op = "findAll"
    /\ Handle(findAll(activities, contents))

FindOneById ==
    /\ phase = "pending" /\ req.op = "findOneById"
    /\ Handle(findOneById(activities, contents, req.id))

FindOneBySlug ==
    /\ phase = "pending" /\ req.op = "findOneBySlug"
    /\ Handle(findOneBySlug(activities, contents, req.slug, req.hasLang, req.lang))

Respond ==
    /\ phase = "handled"
    /\ phase' = "idle"
    /\ req' = NoReq
    /\ res' = NoRes
    /\ gate' = NoGate
    /\ before' = NoBefore
    /\ UNCHANGED <<activities, contents, createdSlugs, procs, auth>>

InitStore ==
    /\ activities = <<>>
    /\ contents = <<>>
    /\ phase = "idle"
    /\ req = NoReq
    /\ res = NoRes
    /\ createdSlugs = {}
    /\ before = NoBefore
    /\ gate = NoGate
    /\ procs = [p \in Procs |-> IdleProc]

Init == InitStore /\ auth = NoAuth

Next ==
    \/ Receive(DateInputs)
    \/ Create
    \/ Update
    \/ FindAll
    \/ FindOneById
    \/ FindOneBySlug
    \/ Respond

Spec == Init /\ [][Next]_vars

NextLang ==
    \/ Receive(LangInputs)
    \/ Create
    \/ Update
    \/ FindAll
    \/ FindOneById
    \/ FindOneBySlug
    \/ Respond

SpecLang == Init /\ [][NextLang]_vars

----------------------------------------------------------------------------
(* The PermissionGuard in front of the ActivityController routes *)

(* the "permissions" metadata of each route: none on the public one *)
RouteMeta ==
    [findBySlug |-> [public |-> TRUE],
     create |-> [permissions |-> <<"activity:manage">>],
     findAll |-> [permissions |-> <<"activity:manage">>],
     findOne |-> [permissions |-> <<"activity:manage">>],
     update |-> [permissions |-> <<"activity:manage">>]]

RouteOp ==
    [findBySlug |-> "findOneBySlug", create |-> "create", findAll |-> "findAll",
     findOne |-> "findOneById", update |-> "update"]

(* a request has a user when a token was resolved; the user carries the
   token's permissions *)
Callers ==
    {<<>>} \cup {[user |-> [permissions |-> P]] :
                    P \in SUBSET {"activity:manage", "activity:view"}}

canActivate_noUserCheck(meta, request) ==
    IF ~Has(meta, "permissions") THEN TRUE
    ELSE IF ~Has(request, "user") THEN TRUE
    ELSE \A i \in DOMAIN meta.permissions :
            meta.permissions[i] \in request.user.permissions

canActivate(meta, request) ==
    IF ~Has(meta, "permissions") THEN TRUE
    ELSE IF ~Has(request, "user") THEN FALSE
    ELSE \A i \in DOMAIN meta.permissions :
            meta.permissions[i] \in request.user.permissions

GateInputs ==
    {[op |-> "create",
      dto |-> [slug |-> s, startAt |-> 1, endAt |-> 2,
               supportedLanguages |-> <<en>>, contents |-> <<Item1(en)>>]] :
        s \in {abc, xy}}
    \cup {[op |-> "update", id |-> i, dto |-> b] :
            i \in 1..2, b \in Opt("endAt", Dates)}
    \cup DateFindInputs

(* a request reaches the guard *)
Arrive ==
    /\ phase = "idle" /\ gate = NoGate
    /\ \E route \in DOMAIN RouteMeta, request \in Callers :
        gate' = [route |-> route, request |-> request,
                 allowed |-> canActivate(RouteMeta[route], request)]
    /\ UNCHANGED <<activities, contents, phase, req, res, createdSlugs, procs, before, auth>>

(* the guard returned false: the request ends here *)
Deny ==
    /\ phase = "idle" /\ gate # NoGate /\ ~gate.allowed
    /\ gate' = NoGate
    /\ UNCHANGED <<activities, contents, phase, req, res, createdSlugs, procs, before, auth>>

(* the guard returned true: the request goes on to the pipe and its handler *)
Admit ==
    /\ gate # NoGate /\ gate.allowed
    /\ Receive({r \in GateInputs : r.op = RouteOp[gate.route]})

NextGate ==
    \/ Arrive
    \/ Deny
    \/ Admit
    \/ Create
    \/ Update
    \/ FindAll
    \/ FindOneById
    \/ FindOneBySlug
    \/ Respond

SpecGate == Init /\ [][NextGate]_vars

----------------------------------------------------------------------------
(* Concurrent requests.  A handler is cut at its awaits: each step is one
   statement against the store together with the synchronous code up to the
   next one.  Statements of a transaction are staged and take effect at the
   commit; tx.activity.update locks its row until then. *)

ConcCreateInputs ==
    {[op |-> "create",
      dto |-> [slug |-> s, startAt |-> 1, endAt |-> MaxDate,
               supportedLanguages |-> <<en>>, contents |-> <<Item1(en)>>]] :
        s \in {abc, xy}}

ConcUpdateInputs ==
    {[op |-> "update", id |-> 1, dto |-> d] :
        d \in {[f \in {"startAt"} |-> a] : a \in Dates \ {1}}
              \cup {[f \in {"endAt"} |-> b] : b \in Dates \ {1, MaxDate}}
              \cup {[supportedLanguages |-> <<EN, zh>>,
                     contents |-> <<Item2(en), Item1(zh)>>],
                    [slug |-> xy]}}

(* renames, of either activity, to a slug that a create asks for and to one
   that only updates ask for *)
SlugUpdateInputs ==
    {[op |-> "update", id |-> i, dto |-> d] :
        i \in 1..2,
        d \in {[slug |-> xy], [slug |-> xyz],
               [slug |-> xyz, contents |-> <<Item1(en)>>]}}

ConcReadInputs ==
    {[op |-> "findOneBySlug", slug |-> abc, hasLang |-> FALSE, lang |-> <<>>],
     [op |-> "findOneById", id |-> 1],
     [op |-> "findAll"]}

Done(r, response) == [pc |-> "done", req |-> r, res |-> response]

InTx(q) == q.pc \in {"u_upsert", "u_commit"}

(* the slug is the old or the new key of a row that an open transaction of
   another request has updated: a write of that key to activities_slug_key
   waits for the end of that transaction *)
SlugInFlight(p, slug) ==
    \E o \in Procs \ {p} :
        /\ InTx(procs[o])
        /\ Has(procs[o].req.dto, "slug")
        /\ slug \in {procs[o].req.dto.slug, procs[o].pre.activity.slug}

C_Check(p, Inputs) ==
    /\ procs[p].pc = "idle"
    /\ \E r \in Inputs :
        LET q == Piped(r)
            failed == CreateChecks(activities, q.dto)
        IN  /\ DtoValid(q.dto)
            /\ procs' = [procs EXCEPT ![p] =
                    IF failed.status # "Ok" THEN Done(q, failed)
                    ELSE [pc |-> "c_write", req |-> q]]
    /\ UNCHANGED <<activities, contents, phase, req, res, createdSlugs, gate, before, auth>>

(* prisma.activity.create *)
C_Write(p) ==
    /\ procs[p].pc = "c_write"
    /\ ~SlugInFlight(p, procs[p].req.dto.slug)
    /\ LET o == insertActivity(activities, contents, procs[p].req.dto)
       IN  /\ activities' = o.activities
           /\ contents' = o.contents
           /\ procs' = [procs EXCEPT ![p] = Done(procs[p].req, o.res)]
    /\ UNCHANGED <<phase, req, res, createdSlugs, gate, before, auth>>

(* update from findOneById to the statement after it *)
AfterSlugCheck(q, activity) ==
    LET failed == UpdateLanguageCheck(activity, q.dto)
    IN  IF failed.status # "Ok" THEN Done(q, failed)
        ELSE [pc |-> "u_tx", req |-> q, activity |-> activity]

U_Load(p, Inputs) ==
    /\ procs[p].pc = "idle"
    /\ \E r \in Inputs :
        LET q == Piped(r)
            activity == activities[q.id]
        IN  /\ DtoValid(q.dto)
            /\ procs' = [procs EXCEPT ![p] =
                    IF q.id \notin DOMAIN activities THEN Done(q, NotFound)
                    ELSE IF UpdateDateCheck(activity, q.dto).status # "Ok"
                         THEN Done(q, UpdateDateCheck(activity, q.dto))
                    ELSE IF Has(q.dto, "slug") /\ q.dto.slug # activity.slug
                         THEN [pc |-> "u_slug", req |-> q, activity |-> activity]
                    ELSE AfterSlugCheck(q, activity)]
    /\ UNCHANGED <<activities, contents, phase, req, res, createdSlugs, gate, before, auth>>

U_CheckSlug(p) ==
    /\ procs[p].pc = "u_slug"
    /\ LET q == procs[p].req
           failed == checkSlugExists(activities, q.dto.slug)
       IN  procs' = [procs EXCEPT ![p] =
                IF failed.status # "Ok" THEN Done(q, failed)
                ELSE AfterSlugCheck(q, procs[p].activity)]
    /\ UNCHANGED <<activities, contents, phase, req, res, createdSlugs, gate, before, auth>>

(* tx.activity.update: takes the row lock, or waits for it *)
U_TxUpdate(p) ==
    /\ procs[p].pc = "u_tx"
    /\ \A o \in Procs \ {p} : ~(InTx(procs[o]) /\ procs[o].req.id = procs[p].req.id)
    /\ Has(procs[p].req.dto, "slug") => ~SlugInFlight(p, procs[p].req.dto.slug)
    /\ LET q == procs[p].req
           pre == ActivityView(activities, contents, q.id)
       IN  procs' = [procs EXCEPT ![p] =
                IF ~SlugKeyUnique(TxActivities(activities, q.id, q.dto))
                THEN Done(q, StoreError)
                ELSE [pc |-> IF Has(q.dto, "contents") /\ q.dto.contents # <<>>
                             THEN "u_upsert" ELSE "u_commit",
                      req |-> q, pre |-> pre, staged |-> <<>>]]
    /\ UNCHANGED <<activities, contents, phase, req, res, createdSlugs, gate, before, auth>>

(* one tx.activityContent.upsert: staged in the transaction *)
StageUpsert_onBaseClient(rows, staged, id, c) ==
    [rows |-> upsert(rows, id, c), staged |-> staged]

StageUpsert(rows, staged, id, c) ==
    [rows |-> rows, staged |-> Append(staged, c)]

U_Upsert(p) ==
    /\ procs[p].pc = "u_upsert"
    /\ LET q == procs[p].req
           k == Len(procs[p].staged) + 1
           st == StageUpsert(contents, procs[p].staged, q.id, q.dto.contents[k])
       IN  /\ contents' = st.rows
           /\ procs' = [procs EXCEPT ![p] =
                    [@ EXCEPT !.staged = st.staged,
                              !.pc = IF k = Len(q.dto.contents)
                                     THEN "u_commit" ELSE "u_upsert"]]
    /\ UNCHANGED <<activities, phase, req, res, createdSlugs, gate, before, auth>>

(* the end of $transaction: when the callback resolves, the parent update and
   the staged upserts are put in place together; when it rejects, none is *)
TxEnd_keepParent(acts, rows, id, dto, staged, resolved) ==
    [activities |-> TxActivities(acts, id, dto),
     contents |-> IF resolved THEN upsertAll(rows, id, staged) ELSE rows]

TxEnd(acts, rows, id, dto, staged, resolved) ==
    IF resolved
    THEN [activities |-> TxActivities(acts, id, dto),
          contents |-> upsertAll(rows, id, staged)]
    ELSE [activities |-> acts, contents |-> rows]

(* tx.activity.findUnique and the commit *)
U_Commit(p) ==
    /\ procs[p].pc = "u_commit"
    /\ LET q == procs[p].req
           end == TxEnd(activities, contents, q.id, q.dto, procs[p].staged, TRUE)
           acts2 == end.activities
           rows2 == end.contents
       IN  /\ activities' = acts2
           /\ contents' = rows2
           /\ procs' = [procs EXCEPT ![p] =
                    Done(q, [status |-> "Ok", error |-> "none", langs |-> <<>>,
                             body |-> ActivityView(acts2, rows2, q.id)])]
    /\ UNCHANGED <<phase, req, res, createdSlugs, gate, before, auth>>

TxFailed == Failure("InternalError", "TransactionFailed", <<>>)

(* a statement after the parent update rejects (an upsert, the final
   findUnique, the transaction's timeout): the callback rejects, nothing in it
   catches, and $transaction rolls back *)
U_Fail(p) ==
    /\ InTx(procs[p])
    /\ LET q == procs[p].req
           end == TxEnd(activities, contents, q.id, q.dto, procs[p].staged, FALSE)
       IN  /\ activities' = end.activities
           /\ contents' = end.contents
           /\ procs' = [procs EXCEPT ![p] =
                    Done(q, TxFailed) @@
                    [pre |-> procs[p].pre, staged |-> procs[p].staged]]
    /\ UNCHANGED <<phase, req, res, createdSlugs, gate, before, auth>>

(* a finder is one statement *)
ReadResult(r) ==
    IF r.op = "findAll" THEN findAll(activities, contents).res
    ELSE IF r.op = "findOneById" THEN findOneById(activities, contents, r.id).res
    ELSE findOneBySlug(activities, contents, r.slug, r.hasLang, r.lang).res

R_Find(p) ==
    /\ procs[p].pc = "idle"
    /\ \E r \in ConcReadInputs :
        procs' = [procs EXCEPT ![p] =
            Done(r, ReadResult(r)) @@
            [during |-> {<<o, Len(procs[o].staged)>> : o \in {o \in Procs : InTx(procs[o])}}]]
    /\ UNCHANGED <<activities, contents, phase, req, res, createdSlugs, gate, before, auth>>

Return(p) ==
    /\ procs[p].pc = "done"
    /\ procs' = [procs EXCEPT ![p] = IdleProc]
    /\ UNCHANGED <<activities, contents, phase, req, res, createdSlugs, gate, before, auth>>

NextConc ==
    \E p \in Procs :
        \/ C_Check(p, ConcCreateInputs)
        \/ C_Write(p)
        \/ U_Load(p, ConcUpdateInputs)
        \/ U_CheckSlug(p)
        \/ U_TxUpdate(p)
        \/ U_Upsert(p)
        \/ U_Commit(p)
        \/ U_Fail(p)
        \/ R_Find(p)
        \/ Return(p)

SpecConc == Init /\ [][NextConc]_vars

NextSlug ==
    \E p \in Procs :
        \/ C_Check(p, ConcCreateInputs)
        \/ C_Write(p)
        \/ U_Load(p, SlugUpdateInputs)
        \/ U_CheckSlug(p)
        \/ U_TxUpdate(p)
        \/ U_Upsert(p)
        \/ U_Commit(p)
        \/ U_Fail(p)
        \/ Return(p)

SpecSlug == Init /\ [][NextSlug]_vars

----------------------------------------------------------------------------
(* AuthService.devLogin behind POST /auth/dev-login *)

Modes == {"production", "development", "test", UnsetMode}

at == "@"

Emails == {<<"a", at, "x">>, <<"b", at, "x">>, <<"c", "d", at, "y">>}

(* email.split("@")[0] *)
RECURSIVE localPart(_)
localPart(email) ==
    IF email = <<>> \/ Head(email) = at THEN <<>>
    ELSE <<Head(email)>> \o localPart(Tail(email))

(* the seeded admin role and its permissions *)
RolePermissions ==
    [admin |-> {"activity:create", "activity:edit", "activity:delete", "activity:view"}]

getUserPermissions(members, memberId) ==
    UNION {RolePermissions[r] : r \in members[memberId].roles}

DevRefused == Failure("InternalError", "DevelopmentOnly", <<>>)

devLogin(a, email) ==
    IF a.mode = "production" THEN [auth |-> a, res |-> DevRefused]
    ELSE
    LET found == {i \in DOMAIN a.members : a.members[i].email = email}
        members2 ==
            IF found = {}
            THEN Append(a.members,
                    [email |-> email, displayName |-> localPart(email),
                     provider |-> "dev", roles |-> {}])
            ELSE a.members
        id == IF found = {} THEN Len(members2) ELSE CHOOSE i \in found : TRUE
        permissions == getUserPermissions(members2, id)
        payload == [sub |-> id, email |-> members2[id].email, permissions |-> permissions]
    IN  [auth |-> [a EXCEPT !.members = members2, !.tokens = @ \cup {payload}],
         res |-> [status |-> "Ok", error |-> "none", langs |-> <<>>,
                  body |-> [access_token |-> payload,
                            user |-> [id |-> id, email |-> members2[id].email,
                                      permissions |-> permissions]]]]

AuthInputs == {[op |-> "devLogin", email |-> e] : e \in Emails}

(* the process starts in some execution mode, on a database with no member or
   with one that holds the admin role *)
AuthInits ==
    {[mode |-> m, members |-> ms, tokens |-> {}] :
        m \in Modes,
        ms \in {<<>>,
                <<[email |-> <<"a", at, "x">>, displayName |-> <<"a">>,
                   provider |-> "github", roles |-> {"admin"}]>>}}

InitAuth == InitStore /\ auth \in AuthInits

DevLogin ==
    /\ phase = "pending" /\ req.op = "devLogin"
    /\ LET o == devLogin(auth, req.email)
       IN  /\ auth' = o.auth
           /\ res' = o.res
    /\ phase' = "handled"
    /\ UNCHANGED <<activities, contents, req, createdSlugs, gate, procs, before>>

NextAuth ==
    \/ Receive(AuthInputs)
    \/ DevLogin
    \/ Respond

SpecAuth == InitAuth /\ [][NextAuth]_vars

----------------------------------------------------------------------------
(* Properties *)

Pending(op) == phase = "pending" /\ req.op = op
Handled(op) == phase = "handled" /\ req.op = op

StoreUnchanged == activities' = activities /\ contents' = contents

LangsInOrder(dto) ==
    /\ \A i \in DOMAIN dto.contents :
            dto.contents[i].lang \in Range(dto.supportedLanguages)
    /\ \A i, j \in DOMAIN dto.contents :
            dto.contents[i].lang = dto.contents[j].lang => i = j

SlugStored(slug) == \E i \in DOMAIN activities : activities[i].slug = slug

ClosedAbsent(dto) == ~Has(dto, "closedAt") \/ dto.closedAt = Null

DatesInOrder(dto) ==
    /\ dto.endAt > dto.startAt
    /\ ClosedAbsent(dto) \/ dto.closedAt < dto.startAt

(* C1: a create request with an unused slug and contents that pass the language
   checks succeeds exactly when endAt > startAt and closedAt is absent or before
   startAt; in every other case of the dates it ends in a validation failure. *)
C1_CreateDates ==
    [][(Pending("create") /\ ~SlugStored(req.dto.slug) /\ LangsInOrder(req.dto))
        => /\ res'.status = "Created" <=> DatesInOrder(req.dto)
           /\ ~DatesInOrder(req.dto) => res'.status = "BadRequest"]_vars

C1_Witness ==
    /\ Handled("create")
    /\ res.status = "Created"
    /\ Has(req.dto, "closedAt") /\ req.dto.closedAt # Null
    /\ Cardinality(DOMAIN activities) = 2

(* C2 as stated: once an activity has been created with slug s, every later
   create request whose slug normalizes to s ends in a conflict and leaves the
   number of activities and content rows as it was. *)
C2_Original ==
    [][(Pending("create") /\ req.dto.slug \in createdSlugs)
        => /\ res'.status = "Conflict"
           /\ Cardinality(DOMAIN activities') = Cardinality(DOMAIN activities)
           /\ Len(contents') = Len(contents)]_vars

(* C2, amended: while an activity with slug s is stored, every create request
   whose slug normalizes to s and whose dates are in order ends in a conflict,
   and the tables are left as they were. *)
C2_SlugConflict ==
    [][(Pending("create") /\ SlugStored(trim(toLowerCase(req.raw.slug)))
            /\ DatesInOrder(req.dto))
        => res'.status = "Conflict" /\ StoreUnchanged]_vars

C2_Witness ==
    /\ Handled("create")
    /\ res.status = "Conflict"
    /\ req.raw.slug # req.dto.slug
    /\ SlugStored(req.dto.slug)

----------------------------------------------------------------------------
(* Content languages of the request being served *)

Writing == phase = "pending" /\ req.op \in {"create", "update"}

WritingContents == Writing /\ Has(req.dto, "contents")

ReqLangs == [i \in DOMAIN req.raw.contents |-> toLowerCase(req.raw.contents[i].lang)]

HasEffectiveSupported == Has(req.dto, "supportedLanguages") \/ req.id \in DOMAIN activities

EffectiveSupported ==
    IF Has(req.dto, "supportedLanguages")
    THEN req.dto.supportedLanguages
    ELSE activities[req.id].supportedLanguages

UnsupportedSet == {l \in Range(ReqLangs) : l \notin Range(EffectiveSupported)}

RepeatedSet ==
    {ReqLangs[i] : i \in {i \in DOMAIN ReqLangs :
                            \E j \in DOMAIN ReqLangs : j # i /\ ReqLangs[j] = ReqLangs[i]}}

(* the request gets as far as the language check *)
EarlierChecksPass ==
    IF req.op = "create"
    THEN DatesInOrder(req.dto) /\ ~SlugStored(req.dto.slug)
    ELSE /\ req.id \in DOMAIN activities
         /\ UpdateDateCheck(activities[req.id], req.dto).status = "Ok"
         /\ UpdateSlugCheck(activities, activities[req.id], req.dto).status = "Ok"

Rejections == {"BadRequest", "Conflict", "NotFound"}

(* C3 as stated: a content list of create or update with a language outside the
   effective supportedLanguages is rejected with a validation failure that
   lists exactly those languages; otherwise this check does not reject. *)
C3_Original ==
    [][(WritingContents /\ HasEffectiveSupported)
        => IF UnsupportedSet # {}
           THEN res'.status = "BadRequest" /\ Range(res'.langs) = UnsupportedSet
           ELSE res'.error # "UnsupportedLanguages"]_vars

(* C3, amended: the same, for a request that passes the checks made before the
   language check (the activity of an update exists, the dates are in order,
   the slug is free). *)
C3_Unsupported ==
    [][(WritingContents /\ EarlierChecksPass)
        => IF UnsupportedSet # {}
           THEN /\ res'.status = "BadRequest"
                /\ res'.error = "UnsupportedLanguages"
                /\ Range(res'.langs) = UnsupportedSet
           ELSE res'.error # "UnsupportedLanguages"]_vars

C3_Witness ==
    /\ Handled("update")
    /\ res.error = "UnsupportedLanguages"
    /\ ~Has(req.dto, "supportedLanguages")
    /\ Len(req.dto.contents) = 3
    /\ Cardinality(Range(res.langs)) = 1
    /\ \E i \in DOMAIN req.raw.contents : req.raw.contents[i].lang = EN

(* C4 as stated: a content list in which a language occurs more than once after
   lowercasing is rejected with a validation failure naming the repeated
   languages, and no content row is written; pairwise distinct supported
   languages are not rejected by this check. *)
C4_Original ==
    [][(WritingContents /\ HasEffectiveSupported)
        => /\ RepeatedSet # {}
                => /\ res'.status = "BadRequest"
                   /\ RepeatedSet \subseteq Range(res'.langs)
                   /\ contents' = contents
           /\ (RepeatedSet = {} /\ UnsupportedSet = {})
                => res'.error # "DuplicateLanguages"]_vars

(* C4, amended: such a list is always rejected and no content row is written;
   the failure names exactly the repeated languages when the request passes
   the earlier checks and every language is supported (an unsupported language
   is reported first, and then only the unsupported ones are named). *)
C4_Duplicates ==
    [][WritingContents
        => /\ RepeatedSet # {}
                => res'.status \in Rejections /\ contents' = contents
           /\ (RepeatedSet # {} /\ EarlierChecksPass /\ UnsupportedSet = {})
                => /\ res'.status = "BadRequest"
                   /\ res'.error = "DuplicateLanguages"
                   /\ Range(res'.langs) = RepeatedSet
           /\ RepeatedSet = {} => res'.error # "DuplicateLanguages"]_vars

C4_Witness ==
    /\ Handled("create")
    /\ res.error = "DuplicateLanguages"
    /\ \E i, j \in DOMAIN req.raw.contents :
            req.raw.contents[i].lang = en /\ req.raw.contents[j].lang = EN

(* C5: findOneBySlug returns exactly the stored content rows of the activity
   whose language is in its current supportedLanguages and, when a language l
   is asked for, equals lowercase(l); a query without a language (none, or the
   empty string) is not narrowed to one language. *)
LangAsked == req.hasLang /\ req.lang # <<>>

ExpectedContents ==
    LET id == CHOOSE i \in DOMAIN activities : activities[i].slug = req.slug
    IN  {Projection(contents[k]) : k \in {k \in DOMAIN contents :
            /\ contents[k].activityId = id
            /\ contents[k].lang \in Range(activities[id].supportedLanguages)
            /\ LangAsked => contents[k].lang = toLowerCase(req.lang)}}

C8_NoWriteOnFailure ==
    [][(Writing /\ res'.status \in Rejections) => StoreUnchanged]_vars

C8_Witness ==
    /\ Handled("update")
    /\ res.error = "UnsupportedLanguages"
    /\ Has(req.dto, "supportedLanguages")
    /\ req.dto.supportedLanguages # activities[req.id].supportedLanguages

(* C9 as stated: every stored content row's language is in the stored
   supportedLanguages of its activity. *)
C9_Original ==
    \A k \in DOMAIN contents :
        contents[k].lang \in Range(activities[contents[k].activityId].supportedLanguages)

(* C9, amended: right after a successful create or update, every content of
   that request is stored with a language that is in the activity's stored
   supportedLanguages; rows of earlier requests stay as they are. *)
C9_WrittenLangs ==
    [][(WritingContents /\ res'.status \in {"Created", "Ok"})
        => \A i \in DOMAIN req.dto.contents :
            /\ req.dto.contents[i].lang
                    \in Range(activities'[res'.body.id].supportedLanguages)
            /\ RowIndex(contents', res'.body.id, req.dto.contents[i].lang) # {}]_vars

C9_Witness ==
    /\ Handled("update")
    /\ res.status = "Ok"
    /\ Has(req.dto, "supportedLanguages")
    /\ Has(req.dto, "contents") /\ req.dto.contents # <<>>
    /\ ~C9_Original

(* C6: the guard allows a route without a permission list, denies a route with
   one when the request has no user, and otherwise allows exactly when every
   required permission is among the user's; so create, findAll, findOneById and
   update are only ever served for a caller holding activity:manage. *)
Required(route) ==
    IF route = "findBySlug" THEN {} ELSE {"activity:manage"}

Declares(route) == route # "findBySlug"

C6_Gate ==
    /\ gate # NoGate =>
        gate.allowed =
            IF ~Declares(gate.route) THEN TRUE
            ELSE IF ~Has(gate.request, "user") THEN FALSE
            ELSE Required(gate.route) \subseteq gate.request.user.permissions
    /\ (phase \in {"pending", "handled"}
            /\ req.op \in {"create", "findAll", "findOneById", "update"})
        => /\ Has(gate.request, "user")
           /\ "activity:manage" \in gate.request.user.permissions

C6_Witness ==
    /\ Handled("update")
    /\ res.status = "Ok"
    /\ gate.request.user.permissions = {"activity:manage", "activity:view"}

(* C7: while an update is inside its transaction no finder sees a state in
   between: the activity and its content rows are served as they were when the
   transaction began, and the commit puts the new parent fields and all the
   upserts in place together. *)
ReadStep(r) ==
    /\ procs[r].pc = "idle" /\ procs'[r].pc = "done"
    /\ procs'[r].req.op \in {"findAll", "findOneById", "findOneBySlug"}

ReadSees(r, pre) ==
    LET q == procs'[r].req
        out == procs'[r].res
    IN  /\ (q.op = "findOneById" /\ q.id = pre.id) => out.body = pre
        /\ (q.op = "findOneBySlug" /\ q.slug = pre.activity.slug)
            => out = findOneBySlug((pre.id :> pre.activity), pre.contents,
                                   q.slug, q.hasLang, q.lang).res
        /\ q.op = "findAll"
            => \E i \in DOMAIN out.body :
                    out.body[i] = [id |-> pre.id, activity |-> pre.activity]

CommitStep(p) ==
    procs[p].pc = "u_commit" /\ procs'[p].pc = "done" /\ procs'[p].res.status = "Ok"

WholeUpdate(pre, dto) ==
    [id |-> pre.id,
     activity |-> ApplyData(pre.activity, UpdateData(dto)),
     contents |-> TxContents(pre.contents, pre.id, dto)]

C7_Isolation ==
    [][\A p \in Procs :
        /\ InTx(procs[p])
            => /\ ActivityView(activities, contents, procs[p].req.id) = procs[p].pre
               /\ \A r \in Procs : ReadStep(r) => ReadSees(r, procs[p].pre)
        /\ CommitStep(p)
            => ActivityView(activities', contents', procs[p].req.id)
                    = WholeUpdate(procs[p].pre, procs[p].req.dto)]_vars

C7_Witness ==
    \E r, p \in Procs :
        /\ procs[r].pc = "done" /\ procs[r].req.op = "findOneById"
        /\ InTx(procs[p])
        /\ Has(procs[p].req.dto, "supportedLanguages")
        /\ <<p, 1>> \in procs[r].during
        /\ procs[r].res.body = procs[p].pre

(* C11: under every interleaving of concurrent create and update requests,
   whose slug check and write are separate steps, no two stored activities
   have the same slug. *)
C11_SlugUnique ==
    \A i, j \in DOMAIN activities :
        activities[i].slug = activities[j].slug => i = j

(* a request whose slug check passed is refused by the index at its write *)
C11_Witness ==
    \E p, o \in Procs :
        /\ procs[p].pc = "done" /\ procs[p].req.op = "update"
        /\ procs[p].res = StoreError
        /\ procs[o].pc = "done" /\ procs[o].req.op = "create"
        /\ procs[o].res.status = "Created"
        /\ procs[o].req.dto.slug = procs[p].req.dto.slug

(* C10: every stored activity has endAt > startAt and, when closedAt is set,
   closedAt < startAt. *)
C10_DatesInvariant ==
    \A i \in DOMAIN activities :
        /\ activities[i].endAt > activities[i].startAt
        /\ activities[i].closedAt # Null
            => activities[i].closedAt < activities[i].startAt

(* C12: for an activity whose closedAt is set, an update whose only field is
   closedAt: null succeeds and leaves the stored closedAt null; an update
   that does not supply closedAt leaves the stored closedAt as it was, so the
   two end in different stored values; and an update leaves startAt and endAt
   as they were unless it supplies them. *)
ClearsClosedAt(dto) == DOMAIN dto = {"closedAt"} /\ dto.closedAt = Null

C12_ClosedAt ==
    [][(Pending("update") /\ req.id \in DOMAIN activities
            /\ activities[req.id].closedAt # Null)
        => LET a == activities[req.id]
               b == activities'[req.id]
           IN  /\ ClearsClosedAt(req.dto)
                    => /\ res'.status = "Ok"
                       /\ b.closedAt = Null
                       /\ b.closedAt # a.closedAt
               /\ (Get(req.dto, "closedAt") = Null /\ res'.status = "Ok")
                    => b.closedAt = Null
               /\ ~Has(req.dto, "closedAt") => b.closedAt = a.closedAt
               /\ ~Has(req.dto, "startAt") => b.startAt = a.startAt
               /\ ~Has(req.dto, "endAt") => b.endAt = a.endAt]_vars

C12_Witness ==
    /\ Handled("update")
    /\ ClearsClosedAt(req.dto)
    /\ res.status = "Ok"
    /\ before.activities[req.id].closedAt # Null
    /\ activities[req.id].closedAt = Null
    /\ activities[req.id].startAt = before.activities[req.id].startAt
    /\ activities[req.id].endAt = before.activities[req.id].endAt

(* C13: for every activity and every update payload with contents that the
   update accepts, the same update applied again right after it succeeds and
   leaves the content rows (keys, titles, descriptions, one row per activity
   and language) as the first one left them; it inserts no row. *)
C13_Idempotent ==
    [][(Pending("update") /\ Has(req.dto, "contents") /\ res'.status = "Ok")
        => LET again == update(activities', contents', req.id, req.dto)
           IN  /\ again.res.status = "Ok"
               /\ again.contents = contents'
               /\ Len(again.contents) = Len(contents')
               /\ ContentKeyUnique(contents')]_vars

(* the second of two equal updates has been served: it found every row of its
   payload in place and changed nothing *)
C13_Witness ==
    /\ Handled("update")
    /\ res.status = "Ok"
    /\ Has(req.dto, "contents") /\ Len(req.dto.contents) = 2
    /\ Has(req.dto, "supportedLanguages")
    /\ before = [activities |-> activities, contents |-> contents]
    /\ \A i \in DOMAIN req.dto.contents :
            \E k \in DOMAIN contents :
                /\ contents[k].activityId = req.id
                /\ contents[k].lang = req.dto.contents[i].lang
                /\ contents[k].title = req.dto.contents[i].title

(* C14: devLogin issues a token and looks up or creates a member only when the
   execution mode is development; in every other mode (production, not set,
   any other value) it refuses, creates no member and issues no token. *)
C14_DevOnly ==
    [][Pending("devLogin")
        => IF auth.mode = "development"
           THEN /\ res'.status = "Ok"
                /\ res'.body.access_token \in auth'.tokens
                /\ \E i \in DOMAIN auth'.members : auth'.members[i].email = req.email
           ELSE /\ res' = DevRefused
                /\ auth'.members = auth.members
                /\ auth'.tokens = auth.tokens]_vars

(* C15: when a step of the update transaction fails after the parent update
   (an upsert or a later statement), or the parent update itself is refused by
   a unique index, the update is rolled back as a whole: the activities and
   the content rows are what they were before the update, and none of the
   upserts already made remains. *)
FailedInTx(p) ==
    /\ procs[p].pc \in {"u_tx", "u_upsert", "u_commit"}
    /\ procs'[p].pc = "done"
    /\ procs'[p].res.status # "Ok"

C15_Rollback ==
    [][\A p \in Procs :
        FailedInTx(p)
            => /\ StoreUnchanged
               /\ InTx(procs[p])
                    => ActivityView(activities', contents', procs[p].req.id)
                            = procs[p].pre]_vars

C15_Witness ==
    \E p \in Procs :
        /\ procs[p].pc = "done" /\ procs[p].res = TxFailed
        /\ Has(procs[p].req.dto, "supportedLanguages")
        /\ Len(procs[p].staged) = 1 /\ Len(procs[p].req.dto.contents) = 2
        /\ ActivityView(activities, contents, procs[p].req.id) = procs[p].pre
        /\ procs[p].req.dto.supportedLanguages # procs[p].pre.activity.supportedLanguages
        /\ \A k \in RowIndex(contents, procs[p].req.id, procs[p].staged[1].lang) :
                contents[k].title # procs[p].staged[1].title

=============================================================================
